---- MODULE Spec2Model ----
(***************************************************************************)
(* Model of the FLIR One USB driver (src/driver/src/main.rs): the endpoint *)
(* binder (FlirOneBuilder and the classification loop of main), the        *)
(* session (FlirOne: toggle_communication, connect) and the run of main.   *)
(*                                                                         *)
(* Four specifications share the variables and the operators:              *)
(*   Spec        the run of main(), the device enumerating its endpoints   *)
(*               in any order;                                             *)
(*   SpecDevice  the run of main(), the device setting any of the upper    *)
(*               bits of its endpoint addresses;                           *)
(*   SpecBind    the enumeration loops of main and build, the device       *)
(*               repeating endpoints;                                      *)
(*   SpecApi     an arbitrary caller of the builder and of the session.    *)
(* The host USB stack (rusb) is the environment: it decides which          *)
(* descriptors the device enumerates and whether each call to it succeeds. *)
(***************************************************************************)
EXTENDS Integers, Sequences, FiniteSets, TLC

VARIABLES
    pc,          \* position of the running caller (main, or the API caller)
    builder,     \* Option<FlirOneBuilder>: None once build(self) consumed it
    flir,        \* Option<FlirOne>: the session, None until build returns Ok
    transfers,   \* every control and bulk transfer submitted to the host stack, in order
    enumerated,  \* the endpoint descriptors the loop of main has consumed, in order
    outcome,     \* result of main (Spec) or of the last API call (SpecApi)
    received,    \* the byte counts returned by the bulk reads that succeeded, in order
    results,     \* Spec: the results of the transfers main has waited for, in order
    ops          \* SpecApi: the calls made on the session since build, in order

vars == <<pc, builder, flir, transfers, enumerated, outcome, received, results, ops>>

(***************************************************************************)
(* Bounds of the model.                                                    *)
(***************************************************************************)
\* longest enumeration of endpoint descriptors main is run against
MaxDescriptors == 6
\* SpecDevice: bits 3..6 of a bEndpointAddress hold a value of 0..MaxReserved
MaxReserved == 2
\* longest sequence of session calls the API caller makes
MaxCalls == 3
\* SpecBind: how many enumerated descriptors may repeat a (direction, number)
MaxRepeats == 1

(***************************************************************************)
(* Option and Result.                                                      *)
(***************************************************************************)
None == << >>
Some(x) == <<x>>
Unwrap(o) == o[1]

Ok == [kind |-> "Ok", text |-> "", n |-> -1]
\* Ok(n) of read_bulk: the number of bytes received
OkN(n) == [kind |-> "Ok", text |-> "", n |-> n]
Err(text) == [kind |-> "Err", text |-> text, n |-> -1]
\* panic!("invalid endpoint # {n}"): the format string and its one argument
Panic(text, n) == [kind |-> "Panic", text |-> text, n |-> n]
Running == [kind |-> "Running", text |-> "", n |-> -1]

(***************************************************************************)
(* Endpoint descriptors (rusb::EndpointDescriptor).  A descriptor holds    *)
(* the byte bEndpointAddress the device reports; direction, number and     *)
(* address are read from that byte.  pos is the position of the descriptor *)
(* in the enumeration: two descriptors of one device are distinct objects  *)
(* even when their bytes agree.                                            *)
(***************************************************************************)
Directions == {"In", "Out"}
\* the values of EndpointDescriptor::number(): the three low bits of the byte
Numbers == 0..7
ProtocolType == {"CONFIG", "FILEIO", "FRAME"}

EndpointDescriptor(bEndpointAddress, pos) ==
    [bEndpointAddress |-> bEndpointAddress, pos |-> pos]

\* EndpointDescriptor::direction(): bit 7 of bEndpointAddress, set for IN
direction(endpoint) ==
    IF (endpoint.bEndpointAddress \div 128) % 2 = 1 THEN "In" ELSE "Out"

\* EndpointDescriptor::number(): bEndpointAddress & 0x07
number(endpoint) == endpoint.bEndpointAddress % 8

\* EndpointDescriptor::address(): the byte bEndpointAddress as reported
address(endpoint) == endpoint.bEndpointAddress

\* the bytes of the endpoints of one direction bit and one number, bits 3..6
\* holding a value of rest
Addresses(rest) ==
    {128 * d + 8 * r + n : d \in 0..1, r \in rest, n \in Numbers}

(***************************************************************************)
(* FlirOneBuilder                                                          *)
(***************************************************************************)
Slots == {"config_read", "config_write", "frame_read",
          "frame_write", "fileio_read", "fileio_write"}

new == [config_read |-> None, config_write |-> None,
        frame_read |-> None, frame_write |-> None,
        fileio_read |-> None, fileio_write |-> None]

config_read(b, endpoint) == [b EXCEPT !.config_read = Some(endpoint)]
config_write(b, endpoint) == [b EXCEPT !.config_write = Some(endpoint)]
frame_read(b, endpoint) == [b EXCEPT !.frame_read = Some(endpoint)]
frame_write(b, endpoint) == [b EXCEPT !.frame_write = Some(endpoint)]
\* mutant: a slot that is filled keeps its endpoint
fileio_read_keep(b, endpoint) ==
    IF b.fileio_read = None THEN [b EXCEPT !.fileio_read = Some(endpoint)] ELSE b

fileio_read(b, endpoint) == [b EXCEPT !.fileio_read = Some(endpoint)]
fileio_write(b, endpoint) == [b EXCEPT !.fileio_write = Some(endpoint)]

\* the setter named slot
Setter(slot, b, endpoint) ==
    CASE slot = "config_read" -> config_read(b, endpoint)
      [] slot = "config_write" -> config_write(b, endpoint)
      [] slot = "frame_read" -> frame_read(b, endpoint)
      [] slot = "frame_write" -> frame_write(b, endpoint)
      [] slot = "fileio_read" -> fileio_read(b, endpoint)
      [] slot = "fileio_write" -> fileio_write(b, endpoint)

\* Result<FlirOne, &'static str>
BuildOk(f) == [ok |-> TRUE, value |-> Some(f), err |-> ""]
BuildErr(text) == [ok |-> FALSE, value |-> None, err |-> text]

\* mutant: the fileio_write slot is not checked (an empty one falls back on
\* the fileio_read descriptor)
build_unchecked(b) ==
    IF b.config_read = None THEN BuildErr("config_read not set")
    ELSE IF b.config_write = None THEN BuildErr("config_write not set")
    ELSE IF b.frame_read = None THEN BuildErr("frame_read not set")
    ELSE IF b.frame_write = None THEN BuildErr("frame_write not set")
    ELSE IF b.fileio_read = None THEN BuildErr("fileio_read not set")
    ELSE BuildOk([config |-> <<Unwrap(b.config_read), Unwrap(b.config_write)>>,
                  frame |-> <<Unwrap(b.frame_read), Unwrap(b.frame_write)>>,
                  fileio |-> <<Unwrap(b.fileio_read),
                               IF b.fileio_write = None THEN Unwrap(b.fileio_read)
                               ELSE Unwrap(b.fileio_write)>>,
                  connected |-> FALSE,
                  expect_file_data |-> FALSE,
                  expect_frame_data |-> FALSE])

\* mutant: the messages of the two fileio slots are exchanged
build_swapped(b) ==
    IF b.config_read = None THEN BuildErr("config_read not set")
    ELSE IF b.config_write = None THEN BuildErr("config_write not set")
    ELSE IF b.frame_read = None THEN BuildErr("frame_read not set")
    ELSE IF b.frame_write = None THEN BuildErr("frame_write not set")
    ELSE IF b.fileio_read = None THEN BuildErr("fileio_write not set")
    ELSE IF b.fileio_write = None THEN BuildErr("fileio_read not set")
    ELSE BuildOk([config |-> <<Unwrap(b.config_read), Unwrap(b.config_write)>>,
                  frame |-> <<Unwrap(b.frame_read), Unwrap(b.frame_write)>>,
                  fileio |-> <<Unwrap(b.fileio_read), Unwrap(b.fileio_write)>>,
                  connected |-> FALSE,
                  expect_file_data |-> FALSE,
                  expect_frame_data |-> FALSE])

\* build(self): the fields are evaluated in the order written, the first
\* empty slot returns its message
build(b) ==
    IF b.config_read = None THEN BuildErr("config_read not set")
    ELSE IF b.config_write = None THEN BuildErr("config_write not set")
    ELSE IF b.frame_read = None THEN BuildErr("frame_read not set")
    ELSE IF b.frame_write = None THEN BuildErr("frame_write not set")
    ELSE IF b.fileio_read = None THEN BuildErr("fileio_read not set")
    ELSE IF b.fileio_write = None THEN BuildErr("fileio_write not set")
    ELSE BuildOk([config |-> <<Unwrap(b.config_read), Unwrap(b.config_write)>>,
                  frame |-> <<Unwrap(b.frame_read), Unwrap(b.frame_write)>>,
                  fileio |-> <<Unwrap(b.fileio_read), Unwrap(b.fileio_write)>>,
                  connected |-> FALSE,
                  expect_file_data |-> FALSE,
                  expect_frame_data |-> FALSE])

(***************************************************************************)
(* FlirOne: toggle_communication and connect.  A call is modelled up to    *)
(* the point where it blocks in the host stack: the operator gives the     *)
(* session as it is at that point and the transfers submitted.             *)
(***************************************************************************)
REQUEST_TYPE == 1
REQUEST == 11
CONTROL_TIMEOUT_S == 1
BULK_TIMEOUT_S == 30
CONFIG_BUF_LEN == 4096
FRAME_BUF_LEN == 131072

\* mutant: the command is 1 whatever start is
control_cmd_start_only(start) == 1

\* let control_cmd = if start { 1 } else { 0 };
control_cmd(start) == IF start THEN 1 ELSE 0

\* the value of the match on protocol_type
index(protocol_type) ==
    CASE protocol_type = "CONFIG" -> 0
      [] protocol_type = "FILEIO" -> 1
      [] protocol_type = "FRAME" -> 2

\* mutant: no flag is set before the transfer (it is left for its confirmation)
expect_data_deferred(f, protocol_type, start) == f

\* mutant: the CONFIG arm marks the file channel as well
expect_data_config(f, protocol_type, start) ==
    CASE protocol_type = "CONFIG" -> [f EXCEPT !.expect_file_data = TRUE]
      [] protocol_type = "FILEIO" -> [f EXCEPT !.expect_file_data = TRUE]
      [] protocol_type = "FRAME" -> [f EXCEPT !.expect_frame_data = TRUE]

\* the assignments made in the arms of the match on protocol_type
expect_data(f, protocol_type, start) ==
    CASE protocol_type = "CONFIG" -> f
      [] protocol_type = "FILEIO" -> [f EXCEPT !.expect_file_data = TRUE]
      [] protocol_type = "FRAME" -> [f EXCEPT !.expect_frame_data = TRUE]

\* self.handle.write_control(0x1, 11, control_cmd, index, &Vec::new(), 1 s)
write_control(request_type, request, value, idx, data_len, timeout_s) ==
    [kind |-> "control", request_type |-> request_type, request |-> request,
     value |-> value, index |-> idx, data_len |-> data_len,
     timeout_s |-> timeout_s]

\* handle.read_bulk(endpoint address, &mut buf, timeout)
read_bulk(endpoint, buf_len, timeout_s) ==
    [kind |-> "bulk", endpoint |-> endpoint, buf_len |-> buf_len,
     timeout_s |-> timeout_s]

\* toggle_communication up to the call of write_control
toggle_communication(f, protocol_type, start) ==
    [flir |-> expect_data(f, protocol_type, start),
     submit |-> <<write_control(REQUEST_TYPE, REQUEST, control_cmd(start),
                                index(protocol_type), 0, CONTROL_TIMEOUT_S)>>]

\* mutant: the connected latch is not tested
connect_unguarded(f) ==
    toggle_communication([f EXCEPT !.connected = TRUE], "FILEIO", TRUE)

\* mutant: connect enables the frame channel
connect_frame(f) ==
    IF ~f.connected
    THEN toggle_communication([f EXCEPT !.connected = TRUE], "FRAME", TRUE)
    ELSE [flir |-> f, submit |-> << >>]

\* mutant: a connect call on a Connected session clears the latch
connect_relatch(f) ==
    IF ~f.connected
    THEN toggle_communication([f EXCEPT !.connected = TRUE], "FILEIO", TRUE)
    ELSE [flir |-> [f EXCEPT !.connected = FALSE], submit |-> << >>]

\* mutant: connect enables the config channel
connect_config(f) ==
    IF ~f.connected
    THEN toggle_communication([f EXCEPT !.connected = TRUE], "CONFIG", TRUE)
    ELSE [flir |-> f, submit |-> << >>]

\* connect up to the call of write_control, or to its return when connected
connect(f) ==
    IF ~f.connected
    THEN toggle_communication([f EXCEPT !.connected = TRUE], "FILEIO", TRUE)
    ELSE [flir |-> f, submit |-> << >>]

(***************************************************************************)
(* main: the classification of one enumerated endpoint descriptor.         *)
(***************************************************************************)
Bound(b) == [ok |-> TRUE, builder |-> Some(b), panic |-> Running]
\* panic!("invalid endpoint # {n}"): the builder is dropped by the unwinding
Invalid(n) == [ok |-> FALSE, builder |-> None, panic |-> Panic("invalid endpoint # ", n)]

\* mutant: the arms of IN 3 and IN 5 are exchanged
bind_swapped(b, endpoint) ==
    IF direction(endpoint) = "In"
    THEN CASE number(endpoint) = 1 -> Bound(config_read(b, endpoint))
           [] number(endpoint) = 3 -> Bound(frame_read(b, endpoint))
           [] number(endpoint) = 5 -> Bound(fileio_read(b, endpoint))
           [] OTHER -> Invalid(number(endpoint))
    ELSE CASE number(endpoint) = 2 -> Bound(config_write(b, endpoint))
           [] number(endpoint) = 4 -> Bound(fileio_write(b, endpoint))
           [] number(endpoint) = 6 -> Bound(frame_write(b, endpoint))
           [] OTHER -> Invalid(number(endpoint))

\* mutant: an OUT endpoint of another number is skipped instead of panicking
bind_skipping(b, endpoint) ==
    IF direction(endpoint) = "In"
    THEN CASE number(endpoint) = 1 -> Bound(config_read(b, endpoint))
           [] number(endpoint) = 3 -> Bound(fileio_read(b, endpoint))
           [] number(endpoint) = 5 -> Bound(frame_read(b, endpoint))
           [] OTHER -> Invalid(number(endpoint))
    ELSE CASE number(endpoint) = 2 -> Bound(config_write(b, endpoint))
           [] number(endpoint) = 4 -> Bound(fileio_write(b, endpoint))
           [] number(endpoint) = 6 -> Bound(frame_write(b, endpoint))
           [] OTHER -> Bound(b)

\* builder = match endpoint.direction() { In => match endpoint.number() ... }
bind(b, endpoint) ==
    IF direction(endpoint) = "In"
    THEN CASE number(endpoint) = 1 -> Bound(config_read(b, endpoint))
           [] number(endpoint) = 3 -> Bound(fileio_read(b, endpoint))
           [] number(endpoint) = 5 -> Bound(frame_read(b, endpoint))
           [] OTHER -> Invalid(number(endpoint))
    ELSE CASE number(endpoint) = 2 -> Bound(config_write(b, endpoint))
           [] number(endpoint) = 4 -> Bound(fileio_write(b, endpoint))
           [] number(endpoint) = 6 -> Bound(frame_write(b, endpoint))
           [] OTHER -> Invalid(number(endpoint))

(***************************************************************************)
(* SpecApi: a caller that fills the builder with any setter calls, builds, *)
(* and then calls connect, toggle_communication, and read_bulk on the      *)
(* session's handle, in any order, each transfer succeeding or failing.    *)
(***************************************************************************)
\* the descriptor the API caller passes to the setter of slot
SlotEndpoint(slot) ==
    CASE slot = "config_read" -> EndpointDescriptor(128 + 1, 1)
      [] slot = "config_write" -> EndpointDescriptor(2, 2)
      [] slot = "fileio_read" -> EndpointDescriptor(128 + 3, 3)
      [] slot = "fileio_write" -> EndpointDescriptor(4, 4)
      [] slot = "frame_read" -> EndpointDescriptor(128 + 5, 5)
      [] slot = "frame_write" -> EndpointDescriptor(6, 6)

\* byte counts a bulk read of capacity cap may return: nothing, a short
\* read, the full buffer
ReadCounts(cap) == {0, 37, cap}
\* Result<usize> of read_bulk
ReadResults(cap) == {OkN(n) : n \in ReadCounts(cap)} \cup {Err("read_bulk: rusb::Error")}
\* what toggle_communication makes of the Result of write_control
ControlResults == {Ok, Err("write_control: rusb::Error")}

InitApi ==
    /\ pc = "builder"
    /\ builder = Some(new)
    /\ flir = None
    /\ transfers = << >>
    /\ enumerated = << >>
    /\ outcome = Running
    /\ received = << >>
    /\ results = << >>
    /\ ops = << >>

ApiSetter(slot) ==
    /\ pc = "builder"
    /\ builder' = Some(Setter(slot, Unwrap(builder), SlotEndpoint(slot)))
    /\ UNCHANGED <<pc, flir, transfers, enumerated, outcome, received, results, ops>>

ApiBuild ==
    /\ pc = "builder"
    /\ LET r == build(Unwrap(builder)) IN
        /\ builder' = None
        /\ flir' = r.value
        /\ pc' = IF r.ok THEN "session" ELSE "build_failed"
        /\ outcome' = IF r.ok THEN Ok ELSE Err(r.err)
    /\ UNCHANGED <<transfers, enumerated, received, results, ops>>

\* the effect of a session call that ran up to its first transfer, or returned
ApiCall(op, r) ==
    /\ flir' = Some(r.flir)
    /\ transfers' = transfers \o r.submit
    /\ ops' = Append(ops, op)
    /\ pc' = IF r.submit = << >> THEN "session" ELSE "write_control"
    /\ outcome' = IF r.submit = << >> THEN Ok ELSE Running
    /\ UNCHANGED <<builder, enumerated, received, results>>

ApiConnect ==
    /\ pc = "session"
    /\ Len(ops) < MaxCalls
    /\ ApiCall(<<"connect", "", FALSE>>, connect(Unwrap(flir)))

ApiToggle(protocol_type, start) ==
    /\ pc = "session"
    /\ Len(ops) < MaxCalls
    /\ ApiCall(<<"toggle_communication", protocol_type, start>>,
               toggle_communication(Unwrap(flir), protocol_type, start))

\* mutant: connect clears the latch when its transfer fails
ApiWriteControlReturn_rollback(res) ==
    /\ pc = "write_control"
    /\ pc' = "session"
    /\ outcome' = res
    /\ flir' = IF res.kind = "Err" /\ ops[Len(ops)][1] = "connect"
               THEN Some([Unwrap(flir) EXCEPT !.connected = FALSE])
               ELSE flir
    /\ UNCHANGED <<builder, transfers, enumerated, received, results, ops>>

\* write_control returns: Ok, or a transport error that `?` propagates
ApiWriteControlReturn(res) ==
    /\ pc = "write_control"
    /\ pc' = "session"
    /\ outcome' = res
    /\ UNCHANGED <<builder, flir, transfers, enumerated, received, results, ops>>

\* the caller reads the IN endpoint of a channel through the handle
ApiReadBulk(channel) ==
    /\ pc = "session"
    /\ Len(ops) < MaxCalls
    /\ LET f == Unwrap(flir)
           e == CASE channel = "CONFIG" -> f.config[1]
                  [] channel = "FILEIO" -> f.fileio[1]
                  [] channel = "FRAME" -> f.frame[1]
       IN transfers' = Append(transfers,
                              read_bulk(address(e), CONFIG_BUF_LEN, BULK_TIMEOUT_S))
    /\ ops' = Append(ops, <<"read_bulk", channel, FALSE>>)
    /\ pc' = "read_bulk"
    /\ outcome' = Running
    /\ UNCHANGED <<builder, flir, enumerated, received, results>>

ApiReadBulkReturn(res) ==
    /\ pc = "read_bulk"
    /\ pc' = "session"
    /\ outcome' = res
    /\ received' = IF res.kind = "Ok" THEN Append(received, res.n) ELSE received
    /\ UNCHANGED <<builder, flir, transfers, enumerated, results, ops>>

NextApi ==
    \/ \E slot \in Slots : ApiSetter(slot)
    \/ ApiBuild
    \/ ApiConnect
    \/ \E p \in ProtocolType, start \in BOOLEAN : ApiToggle(p, start)
    \/ \E res \in ControlResults : ApiWriteControlReturn(res)
    \/ \E channel \in ProtocolType : ApiReadBulk(channel)
    \/ \E res \in ReadResults(CONFIG_BUF_LEN) : ApiReadBulkReturn(res)

SpecApi == InitApi /\ [][NextApi]_vars

(***************************************************************************)
(* Spec: the run of main().  The device is the environment: it is found or *)
(* not, its configuration descriptor is read or not, each interface is     *)
(* claimed or not, it enumerates any endpoint descriptors in any order,    *)
(* and every transfer succeeds or fails.  The addresses of its endpoints   *)
(* have bits 3..6 clear (SpecDevice is the run against the other devices). *)
(***************************************************************************)
Init ==
    /\ pc = "open"
    /\ builder = None
    /\ flir = None
    /\ transfers = << >>
    /\ enumerated = << >>
    /\ outcome = Running
    /\ received = << >>
    /\ results = << >>
    /\ ops = << >>

\* main ends: by a panic, by an error returned through `?`, or by Ok(())
Exit(res) ==
    /\ pc' = "exit"
    /\ outcome' = res

\* open_device_with_vid_pid(0x09CB, 0x1996).unwrap(); FlirOneBuilder::new(flir)
MainOpen(found) ==
    /\ pc = "open"
    /\ IF found
       THEN /\ builder' = Some(new)
            /\ pc' = "active_config"
            /\ UNCHANGED outcome
       ELSE /\ Exit(Panic("called Option::unwrap() on a None value", -1))
            /\ UNCHANGED builder
    /\ UNCHANGED <<flir, transfers, enumerated, received, results, ops>>

\* builder.handle.device().active_config_descriptor()?
MainActiveConfig(ok) ==
    /\ pc = "active_config"
    /\ IF ok
       THEN pc' = "interfaces" /\ UNCHANGED <<builder, outcome>>
       ELSE Exit(Err("active_config_descriptor: rusb::Error")) /\ builder' = None
    /\ UNCHANGED <<flir, transfers, enumerated, received, results, ops>>

\* for interface in config.interfaces(): claim_interface(interface.number())?
MainClaimInterface(ok) ==
    /\ pc \in {"interfaces", "endpoints"}
    /\ IF ok
       THEN pc' = "endpoints" /\ UNCHANGED <<builder, outcome>>
       ELSE Exit(Err("claim_interface: rusb::Error")) /\ builder' = None
    /\ UNCHANGED <<flir, transfers, enumerated, received, results, ops>>

\* the match of main on one endpoint descriptor and its effect on main
Classify(bEndpointAddress) ==
    /\ LET endpoint == EndpointDescriptor(bEndpointAddress, Len(enumerated) + 1)
           r == bind(Unwrap(builder), endpoint)
       IN /\ enumerated' = Append(enumerated, endpoint)
          /\ builder' = r.builder
          /\ IF r.ok THEN UNCHANGED <<pc, outcome>> ELSE Exit(r.panic)
    /\ UNCHANGED <<flir, transfers, received, results, ops>>

\* the next endpoint descriptor of the claimed interface is classified
MainEndpoint(bEndpointAddress) ==
    /\ pc = "endpoints"
    /\ Len(enumerated) < MaxDescriptors
    /\ Classify(bEndpointAddress)

\* the loops are over: let mut flir = builder.build()?
MainBuild ==
    /\ pc \in {"interfaces", "endpoints"}
    /\ LET r == build(Unwrap(builder)) IN
        /\ builder' = None
        /\ flir' = r.value
        /\ IF r.ok THEN pc' = "connect" /\ UNCHANGED outcome ELSE Exit(Err(r.err))
    /\ UNCHANGED <<transfers, enumerated, received, results, ops>>

\* a session call of main that ran up to its transfer
MainCall(r, blocked) ==
    /\ flir' = Some(r.flir)
    /\ transfers' = transfers \o r.submit
    /\ pc' = blocked
    /\ UNCHANGED <<builder, enumerated, outcome, received, results, ops>>

\* mutant: the error of a transfer is dropped and main goes on
MainReturn_swallow(blocked, res, next) ==
    /\ pc = blocked
    /\ pc' = next
    /\ results' = Append(results, res)
    /\ UNCHANGED <<builder, flir, transfers, enumerated, outcome, ops>>

\* the transfer main is blocked in returns; an error ends main through `?`
MainReturn(blocked, res, next) ==
    /\ pc = blocked
    /\ IF res.kind = "Ok" THEN pc' = next /\ UNCHANGED outcome ELSE Exit(res)
    /\ results' = Append(results, res)
    /\ UNCHANGED <<builder, flir, transfers, enumerated, ops>>

\* flir.connect()?
MainConnect ==
    /\ pc = "connect"
    /\ MainCall(connect(Unwrap(flir)), "connect_write_control")

MainConnectReturn(res) ==
    /\ MainReturn("connect_write_control", res, "toggle_frame")
    /\ UNCHANGED received

\* mutant: main enables the config channel instead of the frame channel
MainToggleFrame_config ==
    /\ pc = "toggle_frame"
    /\ MainCall(toggle_communication(Unwrap(flir), "CONFIG", TRUE),
                "toggle_frame_write_control")

\* flir.toggle_communication(ProtocolType::FRAME, true)?
MainToggleFrame ==
    /\ pc = "toggle_frame"
    /\ MainCall(toggle_communication(Unwrap(flir), "FRAME", TRUE),
                "toggle_frame_write_control")

MainToggleFrameReturn(res) ==
    /\ MainReturn("toggle_frame_write_control", res, "read_config")
    /\ UNCHANGED received

\* flir.handle.read_bulk(flir.config.0.address(), &mut buf, 30 s)?
MainReadConfig ==
    /\ pc = "read_config"
    /\ transfers' = Append(transfers,
           read_bulk(address(Unwrap(flir).config[1]), CONFIG_BUF_LEN, BULK_TIMEOUT_S))
    /\ pc' = "read_config_bulk"
    /\ UNCHANGED <<builder, flir, enumerated, outcome, received, results, ops>>

\* mutant: a read that does not fill the buffer is made an error
MainReadConfigReturn_strict(res) ==
    /\ pc = "read_config_bulk"
    /\ IF res.kind = "Ok" /\ res.n = CONFIG_BUF_LEN
       THEN pc' = "read_frame" /\ UNCHANGED outcome
       ELSE Exit(Err("read_bulk: rusb::Error"))
    /\ results' = Append(results, res)
    /\ received' = IF res.kind = "Ok" /\ res.n = CONFIG_BUF_LEN
                   THEN Append(received, res.n) ELSE received
    /\ UNCHANGED <<builder, flir, transfers, enumerated, ops>>

MainReadConfigReturn(res) ==
    /\ MainReturn("read_config_bulk", res, "read_frame")
    /\ received' = IF res.kind = "Ok" THEN Append(received, res.n) ELSE received

\* flir.handle.read_bulk(flir.frame.0.address(), &mut frame_buf, 30 s)?
MainReadFrame ==
    /\ pc = "read_frame"
    /\ transfers' = Append(transfers,
           read_bulk(address(Unwrap(flir).frame[1]), FRAME_BUF_LEN, BULK_TIMEOUT_S))
    /\ pc' = "read_frame_bulk"
    /\ UNCHANGED <<builder, flir, enumerated, outcome, received, results, ops>>

\* mutant: a failed read tears the session down to its state as built
MainReadFrameReturn_teardown(res) ==
    /\ pc = "read_frame_bulk"
    /\ Exit(IF res.kind = "Ok" THEN Ok ELSE res)
    /\ received' = IF res.kind = "Ok" THEN Append(received, res.n) ELSE received
    /\ results' = Append(results, res)
    /\ flir' = IF res.kind = "Err"
               THEN Some([Unwrap(flir) EXCEPT !.connected = FALSE,
                                              !.expect_file_data = FALSE,
                                              !.expect_frame_data = FALSE])
               ELSE flir
    /\ UNCHANGED <<builder, transfers, enumerated, ops>>

\* the last read returns: Ok(()) ends main
MainReadFrameReturn(res) ==
    /\ pc = "read_frame_bulk"
    /\ Exit(IF res.kind = "Ok" THEN Ok ELSE res)
    /\ received' = IF res.kind = "Ok" THEN Append(received, res.n) ELSE received
    /\ results' = Append(results, res)
    /\ UNCHANGED <<builder, flir, transfers, enumerated, ops>>

Next ==
    \/ \E found \in BOOLEAN : MainOpen(found)
    \/ \E ok \in BOOLEAN : MainActiveConfig(ok)
    \/ \E ok \in BOOLEAN : MainClaimInterface(ok)
    \/ \E bEndpointAddress \in Addresses({0}) : MainEndpoint(bEndpointAddress)
    \/ MainBuild
    \/ MainConnect
    \/ \E res \in ControlResults : MainConnectReturn(res)
    \/ MainToggleFrame
    \/ \E res \in ControlResults : MainToggleFrameReturn(res)
    \/ MainReadConfig
    \/ \E res \in ReadResults(CONFIG_BUF_LEN) : MainReadConfigReturn(res)
    \/ MainReadFrame
    \/ \E res \in ReadResults(FRAME_BUF_LEN) : MainReadFrameReturn(res)

Spec == Init /\ [][Next]_vars

(***************************************************************************)
(* SpecBind: the enumeration loops of main and build, against a device all *)
(* of whose endpoints are of the protocol table and that may report a      *)
(* (direction, number) more than once (in several interfaces or alternate  *)
(* settings).  It starts where the configuration descriptor has been read. *)
(***************************************************************************)
\* the addresses of the (direction, number) pairs the match of main has an
\* arm for: IN 1, IN 3, IN 5, OUT 2, OUT 4, OUT 6
ProtocolEndpoints ==
    {128 + 1, 128 + 3, 128 + 5, 2, 4, 6}

\* how many descriptors of seq repeat the (direction, number) of an earlier one
Repeats(seq) ==
    Len(seq) - Cardinality({<<direction(seq[i]), number(seq[i])>> : i \in DOMAIN seq})

InitBind ==
    /\ pc = "interfaces"
    /\ builder = Some(new)
    /\ flir = None
    /\ transfers = << >>
    /\ enumerated = << >>
    /\ outcome = Running
    /\ received = << >>
    /\ results = << >>
    /\ ops = << >>

\* the next endpoint descriptor of the claimed interface is classified
BindEndpoint(bEndpointAddress) ==
    /\ pc = "endpoints"
    /\ Repeats(Append(enumerated, EndpointDescriptor(bEndpointAddress, 0))) <= MaxRepeats
    /\ Classify(bEndpointAddress)

NextBind ==
    \/ \E ok \in BOOLEAN : MainClaimInterface(ok)
    \/ \E bEndpointAddress \in ProtocolEndpoints : BindEndpoint(bEndpointAddress)
    \/ MainBuild

SpecBind == InitBind /\ [][NextBind]_vars

(***************************************************************************)
(* SpecDevice: the run of main() against a device that enumerates its      *)
(* endpoints in the order of their numbers and sets any of the bits 3..6   *)
(* of their addresses (number() masks them, address() reports them).       *)
(***************************************************************************)
\* the next endpoint descriptor of the claimed interface is classified
DeviceEndpoint(bEndpointAddress) ==
    /\ pc = "endpoints"
    /\ enumerated # << >>
       => number(enumerated[Len(enumerated)]) < bEndpointAddress % 8
    /\ Classify(bEndpointAddress)

NextDevice ==
    \/ \E found \in BOOLEAN : MainOpen(found)
    \/ \E ok \in BOOLEAN : MainActiveConfig(ok)
    \/ \E ok \in BOOLEAN : MainClaimInterface(ok)
    \/ \E bEndpointAddress \in Addresses(0..MaxReserved) : DeviceEndpoint(bEndpointAddress)
    \/ MainBuild
    \/ MainConnect
    \/ \E res \in ControlResults : MainConnectReturn(res)
    \/ MainToggleFrame
    \/ \E res \in ControlResults : MainToggleFrameReturn(res)
    \/ MainReadConfig
    \/ \E res \in ReadResults(CONFIG_BUF_LEN) : MainReadConfigReturn(res)
    \/ MainReadFrame
    \/ \E res \in ReadResults(FRAME_BUF_LEN) : MainReadFrameReturn(res)

SpecDevice == Init /\ [][NextDevice]_vars

(***************************************************************************)
(* Properties of the endpoint binder.                                      *)
(***************************************************************************)
\* the six (direction, number) pairs of the protocol
Required == {<<"In", 1>>, <<"Out", 2>>, <<"In", 3>>, <<"Out", 4>>, <<"In", 5>>, <<"Out", 6>>}

Key(endpoint) == <<direction(endpoint), number(endpoint)>>
Keys(seq) == {Key(seq[i]) : i \in DOMAIN seq}
Last(seq) == seq[Len(seq)]

\* main has left the enumeration loops by calling build
BuildCalled ==
    /\ pc \notin {"open", "active_config", "interfaces", "endpoints"}
    /\ outcome.kind # "Panic"
    /\ outcome \notin {Err("active_config_descriptor: rusb::Error"),
                       Err("claim_interface: rusb::Error")}

\* the channel and the direction an error message of build names
NamedSlot(text) ==
    CASE text = "config_read not set" -> <<"CONFIG", "In">>
      [] text = "config_write not set" -> <<"CONFIG", "Out">>
      [] text = "fileio_read not set" -> <<"FILEIO", "In">>
      [] text = "fileio_write not set" -> <<"FILEIO", "Out">>
      [] text = "frame_read not set" -> <<"FRAME", "In">>
      [] text = "frame_write not set" -> <<"FRAME", "Out">>
      [] OTHER -> <<"", "">>

\* the channel an endpoint number belongs to: (1,2) Config, (3,4) FileIO, (5,6) Frame
ChannelOf(n) ==
    CASE n \in {1, 2} -> "CONFIG"
      [] n \in {3, 4} -> "FILEIO"
      [] n \in {5, 6} -> "FRAME"
      [] OTHER -> ""

\* C1: when main has enumerated the six descriptors (IN,1), (OUT,2), (IN,3),
\* (OUT,4), (IN,5), (OUT,6), in whatever order, and has called build, the
\* session exists and holds Config = (IN 1, OUT 2), FileIO = (IN 3, OUT 4),
\* Frame = (IN 5, OUT 6).
C1_BindingIsOrderIndependent ==
    (Len(enumerated) = 6 /\ Keys(enumerated) = Required /\ BuildCalled)
    => /\ flir # None
       /\ outcome.text \notin {"config_read not set", "config_write not set",
                               "fileio_read not set", "fileio_write not set",
                               "frame_read not set", "frame_write not set"}
       /\ Key(Unwrap(flir).config[1]) = <<"In", 1>>
       /\ Key(Unwrap(flir).config[2]) = <<"Out", 2>>
       /\ Key(Unwrap(flir).fileio[1]) = <<"In", 3>>
       /\ Key(Unwrap(flir).fileio[2]) = <<"Out", 4>>
       /\ Key(Unwrap(flir).frame[1]) = <<"In", 5>>
       /\ Key(Unwrap(flir).frame[2]) = <<"Out", 6>>

\* a session bound from the six descriptors enumerated in the reverse order
C1_Witness ==
    /\ pc = "connect"
    /\ flir # None
    /\ Len(enumerated) = 6
    /\ \A i \in 1..6 : number(enumerated[i]) = 7 - i

\* C2: when the descriptors main has enumerated are five of the six required
\* ones and main has called build, main ends with the error of build, no
\* session exists, and the error names the channel and the direction of the
\* one endpoint that is missing.
C2_MissingEndpointIsNamed ==
    \A k \in Required :
        (Keys(enumerated) = Required \ {k} /\ BuildCalled)
        => /\ pc = "exit"
           /\ flir = None
           /\ outcome.kind = "Err"
           /\ NamedSlot(outcome.text) = <<ChannelOf(k[2]), k[1]>>

\* build has failed on a device that lacks (OUT,4) only
C2_Witness ==
    /\ pc = "exit"
    /\ Keys(enumerated) = Required \ {<<"Out", 4>>}
    /\ outcome = Err("fileio_write not set")

\* C3 as amended: when main has enumerated a descriptor whose (direction,
\* number) is not one of the six of the table, main has ended in a panic whose
\* message names the number of that descriptor, no session and no builder
\* exist, and no transfer has been or is submitted.
C3_UnexpectedEndpointPanics ==
    \A i \in DOMAIN enumerated :
        Key(enumerated[i]) \notin Required
        => /\ pc = "exit"
           /\ outcome = Panic("invalid endpoint # ", number(enumerated[i]))
           /\ i = Len(enumerated)
           /\ flir = None
           /\ builder = None
           /\ transfers = << >>

\* main has panicked on (IN,2) after binding three endpoints
C3_Witness ==
    /\ Len(enumerated) = 4
    /\ Key(enumerated[4]) = <<"In", 2>>
    /\ outcome = Panic("invalid endpoint # ", 2)

\* C3 as stated: the fatal error names the offending (direction, number): no
\* descriptor of another direction or number ends main with the same error.
C3_ErrorNamesDirectionAndNumber ==
    \A i \in DOMAIN enumerated :
        Key(enumerated[i]) \notin Required
        => /\ pc = "exit"
           /\ outcome.kind = "Panic"
           /\ flir = None
           /\ transfers = << >>
           /\ \A a \in Addresses({0}) :
                  bind(new, EndpointDescriptor(a, i)).panic = outcome
                  => Key(EndpointDescriptor(a, i)) = Key(enumerated[i])

\* the builder has every slot filled
AllSet(b) == \A slot \in Slots : b[slot] # None

\* the field of the builder an error message of build is about
SlotOfMessage(text) ==
    CASE text = "config_read not set" -> "config_read"
      [] text = "config_write not set" -> "config_write"
      [] text = "fileio_read not set" -> "fileio_read"
      [] text = "fileio_write not set" -> "fileio_write"
      [] text = "frame_read not set" -> "frame_read"
      [] text = "frame_write not set" -> "frame_write"

\* C4: whatever setters were called, the step that calls build yields a
\* session exactly when the six slots are filled; otherwise it yields no
\* session and the error of a slot that is empty.
C4_BuildIsAllOrNothing ==
    [][(pc = "builder" /\ pc' # "builder")
       => LET b == Unwrap(builder) IN
          /\ (flir' # None) <=> AllSet(b)
          /\ AllSet(b) => (pc' = "session" /\ outcome' = Ok)
          /\ ~AllSet(b) => /\ pc' = "build_failed"
                            /\ outcome'.kind = "Err"
                            /\ outcome'.text \in {"config_read not set", "config_write not set",
                                                   "fileio_read not set", "fileio_write not set",
                                                   "frame_read not set", "frame_write not set"}
                            /\ b[SlotOfMessage(outcome'.text)] = None]_vars

\* build has failed on a builder that had four of its slots filled
C4_Witness ==
    /\ pc = "build_failed"
    /\ flir = None
    /\ outcome = Err("fileio_read not set")

(***************************************************************************)
(* Properties of the session.                                              *)
(***************************************************************************)
CallConnect == <<"connect", "", FALSE>>
CallToggle(protocol_type, start) == <<"toggle_communication", protocol_type, start>>

\* the control transfer that enables or disables a channel, as on the wire
Wire(value, idx) ==
    [kind |-> "control", request_type |-> 1, request |-> 11, value |-> value,
     index |-> idx, data_len |-> 0, timeout_s |-> 1]

\* C5: of two connect calls made in succession on a fresh session, the
\* first submits the control transfer (value 1, index 1) and the second
\* submits nothing and changes nothing of the session: one transfer in total.
C5_ConnectIsIdempotent ==
    [][/\ (ops = << >> /\ ops' = <<CallConnect>>)
          => transfers' = <<Wire(1, 1)>>
       /\ (ops = <<CallConnect>> /\ ops' = <<CallConnect, CallConnect>>)
          => /\ transfers' = transfers
             /\ transfers = <<Wire(1, 1)>>
             /\ flir' = flir
             /\ pc' = "session"
             /\ outcome' = Ok]_vars

\* connect has been called twice on a fresh session
C5_Witness ==
    /\ ops = <<CallConnect, CallConnect>>
    /\ Len(transfers) = 1

WireValue(start) == IF start THEN 1 ELSE 0
WireIndex(protocol_type) ==
    CASE protocol_type = "CONFIG" -> 0
      [] protocol_type = "FILEIO" -> 1
      [] protocol_type = "FRAME" -> 2

\* C6: a call of toggle_communication(channel, start) submits one control
\* transfer: request type 0x01, request 11, value 1 if start else 0, index 0
\* for Config, 1 for FileIO, 2 for Frame, no data; its return submits none.
C6_ControlTransferEncoding ==
    [][/\ \A p \in ProtocolType, start \in BOOLEAN :
             ops' = Append(ops, CallToggle(p, start))
             => transfers' = Append(transfers, Wire(WireValue(start), WireIndex(p)))
       /\ ops' = Append(ops, CallToggle("FRAME", TRUE))
          => (Last(transfers').value = 1 /\ Last(transfers').index = 2)
       /\ ops' = Append(ops, CallToggle("FRAME", FALSE))
          => (Last(transfers').value = 0 /\ Last(transfers').index = 2)
       /\ pc = "write_control" => transfers' = transfers]_vars

\* toggle_communication(Frame, false) has been called and has returned
C6_Witness ==
    /\ pc = "session"
    /\ ops # << >>
    /\ Last(ops) = CallToggle("FRAME", FALSE)
    /\ Last(transfers) = Wire(0, 2)

\* the armed flag of a channel
Armed(f, protocol_type) ==
    CASE protocol_type = "FILEIO" -> f.expect_file_data
      [] protocol_type = "FRAME" -> f.expect_frame_data

\* C7: while the control transfer of toggle_communication(FileIO or Frame)
\* is in flight the armed flag of that channel is already true, and when the
\* call has returned the error of the transfer the flag is still true.
C7_FlagSetBeforeTransfer ==
    \A p \in {"FILEIO", "FRAME"}, start \in BOOLEAN :
        (ops # << >> /\ Last(ops) = CallToggle(p, start))
        => /\ pc = "write_control" => Armed(Unwrap(flir), p)
           /\ (pc = "session" /\ outcome = Err("write_control: rusb::Error"))
              => Armed(Unwrap(flir), p)

\* toggle_communication(Frame, true) has failed on a session that had not
\* armed the frame channel before
C7_Witness ==
    /\ ops = <<CallToggle("FRAME", TRUE)>>
    /\ pc = "session"
    /\ outcome = Err("write_control: rusb::Error")
    /\ Unwrap(flir).expect_frame_data

\* C8: after toggle_communication(channel, true) the armed flag of the
\* channel is true, and after toggle_communication(channel, false) it is false.
C8_FlagTracksArmedStatus ==
    \A p \in {"FILEIO", "FRAME"}, start \in BOOLEAN :
        (ops # << >> /\ Last(ops) = CallToggle(p, start))
        => Armed(Unwrap(flir), p) = start

\* C9: a call of toggle_communication leaves connected as it is and changes
\* no armed flag but that of the channel named, so none for Config; the
\* return of the transfer, Ok or error, changes nothing of the session.
C9_ToggleChangesOnlyItsFlag ==
    [][/\ \A p \in ProtocolType, start \in BOOLEAN :
             ops' = Append(ops, CallToggle(p, start))
             => LET f == Unwrap(flir)
                    g == Unwrap(flir') IN
                /\ g.connected = f.connected
                /\ p # "FILEIO" => g.expect_file_data = f.expect_file_data
                /\ p # "FRAME" => g.expect_frame_data = f.expect_frame_data
                /\ g.config = f.config /\ g.fileio = f.fileio /\ g.frame = f.frame
       /\ pc = "write_control" => flir' = flir]_vars

\* toggle_communication(Config, true) has failed and the session is as built
C9_Witness ==
    /\ ops = <<CallToggle("CONFIG", TRUE)>>
    /\ outcome = Err("write_control: rusb::Error")
    /\ ~Unwrap(flir).expect_file_data
    /\ ~Unwrap(flir).expect_frame_data
    /\ ~Unwrap(flir).connected

\* C10: a connect call on a Disconnected session sets the FileIO flag,
\* leaves the Frame flag as it is and submits the one transfer of index 1;
\* the Frame flag goes from false to true only in a step that calls
\* toggle_communication(Frame, _).
C10_ConnectArmsFileIoOnly ==
    [][/\ (ops' = Append(ops, CallConnect) /\ ~Unwrap(flir).connected)
          => /\ Unwrap(flir').connected
             /\ Unwrap(flir').expect_file_data
             /\ Unwrap(flir').expect_frame_data = Unwrap(flir).expect_frame_data
             /\ Len(transfers') = Len(transfers) + 1
             /\ Last(transfers').kind = "control"
             /\ Last(transfers').index = 1
       /\ (flir # None /\ ~Unwrap(flir).expect_frame_data /\ Unwrap(flir').expect_frame_data)
          => \E start \in BOOLEAN : ops' = Append(ops, CallToggle("FRAME", start))]_vars

\* connect has returned Ok and the frame channel is not armed
C10_Witness ==
    /\ ops = <<CallConnect>>
    /\ pc = "session"
    /\ outcome = Ok
    /\ Unwrap(flir).expect_file_data
    /\ ~Unwrap(flir).expect_frame_data

(***************************************************************************)
(* Properties of the transfers and of the run of main.                     *)
(***************************************************************************)
\* a bulk read as submitted to the host stack
BulkRead(endpoint, buf_len) ==
    [kind |-> "bulk", endpoint |-> endpoint, buf_len |-> buf_len, timeout_s |-> 30]

\* C11: when a bulk read of main returns an error, main returns that error
\* and the session keeps its connected latch and its two armed flags (and
\* its endpoints) as they were when the read was submitted.
C11_FailedBulkLeavesSession ==
    [][(pc \in {"read_config_bulk", "read_frame_bulk"}
        /\ results' # results /\ Last(results').kind = "Err")
       => /\ flir' = flir
          /\ pc' = "exit"
          /\ outcome' = Err("read_bulk: rusb::Error")
          /\ transfers' = transfers]_vars

\* the read of the frame endpoint has failed on a session that is connected
\* and has both channels armed
C11_Witness ==
    /\ pc = "exit"
    /\ Len(transfers) = 4
    /\ outcome = Err("read_bulk: rusb::Error")
    /\ Unwrap(flir).connected
    /\ Unwrap(flir).expect_file_data
    /\ Unwrap(flir).expect_frame_data

\* C12: no transfer is submitted twice in a run, at most one transfer is in
\* flight, and a transfer that returned an error is the last one submitted:
\* main has ended with that error and nothing is submitted after it.
C12_NoRetryAfterFailure ==
    /\ \A i, j \in DOMAIN transfers : i # j => transfers[i] # transfers[j]
    /\ Len(results) <= Len(transfers)
    /\ Len(transfers) <= Len(results) + 1
    /\ \A i \in DOMAIN results :
          results[i].kind = "Err"
          => /\ i = Len(results)
             /\ Len(transfers) = i
             /\ pc = "exit"
             /\ outcome = results[i]

\* the control transfer of the frame channel has failed after that of connect
C12_Witness ==
    /\ results = <<Ok, Err("write_control: rusb::Error")>>
    /\ Len(transfers) = 2
    /\ pc = "exit"

\* C13: a bulk read of main that returns Ok(n) with n anywhere from 0 to the
\* capacity of its buffer is no error: n is the count received and main goes
\* on, from the config read to the frame read, from the frame read to Ok(()).
C13_ShortReadIsSuccess ==
    [][/\ (pc = "read_config_bulk" /\ results' # results /\ Last(results').kind = "Ok")
          => /\ Last(results').n \in 0..4096
             /\ received' = Append(received, Last(results').n)
             /\ pc' = "read_frame"
             /\ outcome' = Running
       /\ (pc = "read_frame_bulk" /\ results' # results /\ Last(results').kind = "Ok")
          => /\ Last(results').n \in 0..131072
             /\ received' = Append(received, Last(results').n)
             /\ pc' = "exit"
             /\ outcome' = Ok]_vars

\* the config read has returned 37 bytes of 4096 and main has gone on to
\* submit the frame read
C13_Witness ==
    /\ received = <<37>>
    /\ pc = "read_frame_bulk"
    /\ Len(transfers) = 4
    /\ outcome = Running

\* C14: the session build returns is Disconnected with both armed flags
\* false, and no step of any call, whatever its transfer returns, takes
\* connected from true back to false.
C14_ConnectedIsALatch ==
    [][/\ (flir = None /\ flir' # None)
          => /\ ~Unwrap(flir').connected
             /\ ~Unwrap(flir').expect_file_data
             /\ ~Unwrap(flir').expect_frame_data
       /\ (flir # None /\ Unwrap(flir).connected)
          => (flir' # None /\ Unwrap(flir').connected)]_vars

\* a Connected session on which a later bulk read has failed
C14_Witness ==
    /\ ops = <<CallConnect, <<"read_bulk", "FRAME", FALSE>>>>
    /\ pc = "session"
    /\ outcome = Err("read_bulk: rusb::Error")
    /\ Unwrap(flir).connected

\* the transfers of a run of main on the session f, in their order
Program(f) ==
    <<Wire(1, 1), Wire(1, 2),
      BulkRead(f.config[1].bEndpointAddress, 4096),
      BulkRead(f.frame[1].bEndpointAddress, 131072)>>

\* C15: the transfers main has submitted are a prefix of: control (value 1,
\* index 1), control (value 1, index 2), bulk read of the Config IN endpoint,
\* bulk read of the Frame IN endpoint, each read at the address the device
\* reported for the endpoint bound to that slot, an IN endpoint of number 1
\* and of number 5; none is submitted unless the device was opened, no claim
\* failed and build returned the session; the Frame read is submitted only
\* when the Frame enable returned Ok and the Frame flag is true.
C15_TransferOrder ==
    /\ Len(transfers) <= 4
    /\ transfers # << >>
       => /\ flir # None
          /\ builder = None
          /\ BuildCalled
          /\ Keys(enumerated) = Required
          /\ Key(Unwrap(flir).config[1]) = <<"In", 1>>
          /\ Key(Unwrap(flir).frame[1]) = <<"In", 5>>
    /\ \A i \in DOMAIN transfers : transfers[i] = Program(Unwrap(flir))[i]
    /\ Len(transfers) >= 3
       => /\ transfers[3].endpoint \div 128 = 1
          /\ transfers[3].endpoint % 8 = 1
    /\ Len(transfers) >= 4
       => /\ transfers[4].endpoint \div 128 = 1
          /\ transfers[4].endpoint % 8 = 5
          /\ results[2] = Ok
          /\ Unwrap(flir).expect_frame_data

\* main is blocked in the read of the frame endpoint of a device that
\* reported 0x89 for its Config IN endpoint and 0x8d for its Frame IN endpoint
C15_Witness ==
    /\ pc = "read_frame_bulk"
    /\ Len(results) = 3
    /\ transfers = <<Wire(1, 1), Wire(1, 2), BulkRead(137, 4096), BulkRead(141, 131072)>>

\* C16: between calls, a session that is Connected has the FileIO flag set.
C16_ConnectedImpliesFileArmed ==
    (flir # None /\ pc = "session" /\ Unwrap(flir).connected)
    => Unwrap(flir).expect_file_data

\* connect has failed on a session whose frame channel had been enabled
C16_Witness ==
    /\ ops = <<CallToggle("FRAME", TRUE), CallConnect>>
    /\ pc = "session"
    /\ outcome = Err("write_control: rusb::Error")
    /\ Unwrap(flir).connected
    /\ Unwrap(flir).expect_file_data

\* C17: connected is true while the transfer of connect is in flight and
\* stays true when that transfer fails; a connect call on a Connected session
\* returns Ok and submits nothing; on a Connected session the FileIO enable
\* is submitted only by a call of toggle_communication(FileIO, true).
C17_FailedConnectStaysConnected ==
    [][/\ (pc = "write_control" /\ Last(ops) = CallConnect)
          => /\ Unwrap(flir).connected
             /\ Unwrap(flir').connected
             /\ pc' = "session"
       /\ (flir # None /\ Unwrap(flir).connected /\ ops' = Append(ops, CallConnect))
          => /\ transfers' = transfers
             /\ flir' = flir
             /\ pc' = "session"
             /\ outcome' = Ok
       /\ (flir # None /\ Unwrap(flir).connected
           /\ transfers' = Append(transfers, Wire(1, 1)))
          => ops' = Append(ops, CallToggle("FILEIO", TRUE))]_vars

\* connect has failed, the session is Connected and one transfer was submitted
C17_Witness ==
    /\ ops = <<CallConnect>>
    /\ pc = "session"
    /\ outcome = Err("write_control: rusb::Error")
    /\ Unwrap(flir).connected
    /\ transfers = <<Wire(1, 1)>>

\* the endpoints of a session, by slot
Endpoints(f) ==
    <<f.config[1], f.config[2], f.fileio[1], f.fileio[2], f.frame[1], f.frame[2]>>

\* C18: when build has returned a session, whatever was enumerated and
\* however often, the read and write endpoints of Config, FileIO and Frame
\* are (IN 1, OUT 2), (IN 3, OUT 4), (IN 5, OUT 6), the six are distinct
\* descriptors, and each is the last descriptor enumerated with its
\* (direction, number).
C18_LastDescriptorWins ==
    flir # None
    => LET e == Endpoints(Unwrap(flir)) IN
       /\ <<Key(e[1]), Key(e[2]), Key(e[3]), Key(e[4]), Key(e[5]), Key(e[6])>>
          = <<(<<"In", 1>>), (<<"Out", 2>>), (<<"In", 3>>), (<<"Out", 4>>),
              (<<"In", 5>>), (<<"Out", 6>>)>>
       /\ \A i, j \in 1..6 : i # j => e[i] # e[j]
       /\ \A i \in 1..6 :
             /\ e[i].pos \in DOMAIN enumerated
             /\ enumerated[e[i].pos] = e[i]
             /\ \A j \in DOMAIN enumerated :
                   Key(enumerated[j]) = Key(e[i]) => j <= e[i].pos

\* a session bound from seven descriptors, (IN,3) enumerated first and last
C18_Witness ==
    /\ flir # None
    /\ Len(enumerated) = 7
    /\ Key(enumerated[1]) = <<"In", 3>>
    /\ Key(enumerated[7]) = <<"In", 3>>
    /\ Unwrap(flir).fileio[1].pos = 7

====
